---- MODULE Spec2Model ----
(***************************************************************************)
(* Model of halo2-examples/src/is_zero.rs: the IsZero gadget               *)
(* (IsZeroChip::configure / IsZeroChip::assign), the TestCircuit that      *)
(* drives it, and the CheatCircuit of the adversarial test.                *)
(*                                                                         *)
(* The field Fp is modelled by the prime field of P elements; expressions  *)
(* are kept as syntax trees and evaluated row by row, as the mock prover   *)
(* does.  Region operations are calls to an external collaborator, which   *)
(* may reject any of them.                                                 *)
(***************************************************************************)
EXTENDS Integers, Sequences, FiniteSets, TLC

\* ---------------------------------------------------------------- bounds
MaxRows == 2          \* rows of the table = longest `values` vector
MaxGadgets == 2       \* calls of IsZeroChip::configure on one constraint system

\* ----------------------------------------------------------------- field
P == 7                \* modulus of the (scaled-down) prime field standing for pasta::Fp
F == 0 .. (P - 1)

FAdd(a, b) == (a + b) % P
FNeg(a) == (P - a) % P
FMul(a, b) == (a * b) % P

RECURSIVE FPow(_, _)
FPow(a, n) == IF n = 0 THEN 1 ELSE FMul(a, FPow(a, n - 1))

\* Field::invert : CtOption<F>, none for zero, else a^(P-2)
Invert(x) ==
    IF x = 0 THEN [some |-> FALSE, v |-> 0]
             ELSE [some |-> TRUE, v |-> FPow(x, P - 2)]

\* CtOption::unwrap_or
UnwrapOr(opt, default) == IF opt.some THEN opt.v ELSE default

\* ----------------------------------------------------------------- Value
Known(x) == [known |-> TRUE, v |-> x]
Unknown == [known |-> FALSE, v |-> 0]
Values == {Known(x) : x \in F} \cup {Unknown}

\* slip: the fallback for zero is one instead of zero
InvertOrOne(x) == UnwrapOr(Invert(x), 1)

\* the closure of line 80: |value| value.invert().unwrap_or(F::zero())
InvertOrZero(x) == UnwrapOr(Invert(x), 0)

\* slip: the value itself is written, not its inverse
ValueInvOfNoInvert(value) == value

\* line 80: value.map(closure); the closure is not run on an unknown value
ValueInvOf(value) ==
    IF value.known THEN Known(InvertOrZero(value.v)) ELSE Unknown

\* ----------------------------------------------------- columns and cells
Rows == 0 .. (MaxRows - 1)
AdviceCol == 0                     \* TestCircuit::configure: `advice`
HelperCols == 1 .. MaxGadgets      \* columns handed to configure as `value_inv`
Cols == {AdviceCol} \cup HelperCols

Unassigned == [assigned |-> FALSE, v |-> 0]
Assigned(x) == [assigned |-> TRUE, v |-> x]

\* results of the region collaborator
Errors == {"NotEnoughRowsAvailable", "Synthesis"}
Outcomes == {"Ok"} \cup Errors

VARIABLES
    gates,      \* ConstraintSystem.gates: the registered gates, in order
    configs,    \* the IsZeroConfig returned by each configure call
    circuit,    \* which circuit is synthesized: "Test" or "Cheat"
    values,     \* TestCircuit.values
    sel,        \* selector column: row -> enabled
    cells,      \* advice columns: column -> row -> cell
    pc,         \* position in configure / synthesize
    i,          \* loop index of synthesize (row)
    k,          \* chip whose assign is called next
    lastCall,   \* arguments of the last region.assign_advice call
    collab,     \* what the collaborator returned to the last chip assign
    assignRet,  \* what the last IsZeroChip::assign returned
    result      \* what synthesize returned

vars == <<gates, configs, circuit, values, sel, cells, pc, i, k,
          lastCall, collab, assignRet, result>>

\* ----------------------------------------------------------- expressions
Constant(c) == [t |-> "Constant", c |-> c, col |-> 0, a |-> <<>>, b |-> <<>>]
SelectorQuery == [t |-> "Selector", c |-> 0, col |-> 0, a |-> <<>>, b |-> <<>>]
AdviceQuery(col) == [t |-> "Advice", c |-> 0, col |-> col, a |-> <<>>, b |-> <<>>]
Negated(x) == [t |-> "Negated", c |-> 0, col |-> 0, a |-> x, b |-> <<>>]
Sum(x, y) == [t |-> "Sum", c |-> 0, col |-> 0, a |-> x, b |-> y]
Product(x, y) == [t |-> "Product", c |-> 0, col |-> 0, a |-> x, b |-> y]
\* impl Sub for Expression: a - b = Sum(a, Negated(b))
Minus(x, y) == Sum(x, Negated(y))

\* value of a cell in a polynomial: an unassigned cell reads as zero
CellValue(c) == IF c.assigned THEN c.v ELSE 0

\* evaluation of an expression on row r of the table (s: selector, c: cells)
RECURSIVE EvalIn(_, _, _, _)
EvalIn(e, r, s, c) ==
    CASE e.t = "Constant" -> e.c
      [] e.t = "Selector" -> IF s[r] THEN 1 ELSE 0
      [] e.t = "Advice"   -> CellValue(c[e.col][r])
      [] e.t = "Negated"  -> FNeg(EvalIn(e.a, r, s, c))
      [] e.t = "Sum"      -> FAdd(EvalIn(e.a, r, s, c), EvalIn(e.b, r, s, c))
      [] e.t = "Product"  -> FMul(EvalIn(e.a, r, s, c), EvalIn(e.b, r, s, c))

Eval(e, r) == EvalIn(e, r, sel, cells)

\* ------------------------------------------------- IsZeroChip::configure
\* slip: the first helper column is queried whatever column was passed
QueryValueInvFixed(value_inv) == AdviceQuery(1)

\* line 56: meta.query_advice(value_inv, Rotation::cur())
QueryValueInv(value_inv) == AdviceQuery(value_inv)

\* slip: sign of the product
IsZeroExprPlus(value, value_inv) ==
    Sum(Constant(1), Product(value, value_inv))

\* line 59: is_zero_expr = Constant(1) - value * value_inv
IsZeroExpr(value, value_inv) == Minus(Constant(1), Product(value, value_inv))

\* slips: a factor of the identity is left out
GatePolyNoValue(q_enable, value, is_zero_expr) ==
    Product(q_enable, is_zero_expr)

GatePolyNoEnable(q_enable, value, is_zero_expr) ==
    Product(value, is_zero_expr)

\* line 64: q_enable * value * is_zero_expr
GatePoly(q_enable, value, is_zero_expr) ==
    Product(Product(q_enable, value), is_zero_expr)

\* lines 119-120: the closures TestCircuit::configure passes
QEnable == SelectorQuery
ValueExpr == AdviceQuery(AdviceCol)

\* lines 35-71: the gate configure appends and the config it returns
ConfigureGate(q_enable, value, value_inv) ==
    [name |-> "is_zero",
     poly |-> GatePoly(q_enable, value,
                       IsZeroExpr(value, QueryValueInv(value_inv)))]

\* slip: the config keeps the initial is_zero_expr of line 41
ConfigureConfigStale(value, value_inv) ==
    [value_inv |-> value_inv, is_zero_expr |-> Constant(0)]

ConfigureConfig(value, value_inv) ==
    [value_inv |-> value_inv,
     is_zero_expr |-> IsZeroExpr(value, QueryValueInv(value_inv))]

\* --------------------------------------------------- MockProver::verify
\* every polynomial of every gate is zero on every row
GateHolds(g, r) == Eval(gates[g].poly, r) = 0

\* every cell a gate queries is assigned on the rows whose selector is on
CellsAssigned(g, r) ==
    sel[r] => /\ cells[AdviceCol][r].assigned
              /\ cells[configs[g].value_inv][r].assigned

Verify ==
    \A g \in 1 .. Len(gates) : \A r \in Rows :
        GateHolds(g, r) /\ CellsAssigned(g, r)

\* ------------------------------------------------------- region writes
\* region.assign_advice(_, column, offset, || value) that succeeded: a known
\* value is stored; for an unknown value there is nothing to store
Stored(column, offset, value) ==
    IF value.known
    THEN [cells EXCEPT ![column][offset] = Assigned(value.v)]
    ELSE cells

Call(column, offset, value) ==
    [column |-> column, offset |-> offset, value |-> value]

NoCall == [column |-> 0, offset |-> 0, value |-> Unknown]

\* slip: the result of the region write is dropped
AssignReturnOk(outcome) == "Ok"

\* lines 81-82: `?` hands the collaborator's error on, else Ok(())
AssignReturn(outcome) == IF outcome = "Ok" THEN "Ok" ELSE outcome

\* ----------------------------------------------------------------- Init
SeqsUpTo(S, n) == UNION {[1 .. m -> S] : m \in 0 .. n}

Init ==
    /\ gates = <<>>
    /\ configs = <<>>
    /\ circuit \in {"Test", "Cheat"}
    /\ values \in SeqsUpTo(Values, MaxRows)
    /\ (circuit = "Cheat" => values = <<>>)
    /\ sel = [r \in Rows |-> FALSE]
    /\ cells = [c \in Cols |-> [r \in Rows |-> Unassigned]]
    /\ pc = "configure"
    /\ i = 0
    /\ k = 1
    /\ lastCall = NoCall
    /\ collab = "none"
    /\ assignRet = "none"
    /\ result = "none"

\* -------------------------------------------------------------- actions
\* IsZeroChip::configure(meta, q_enable, value, value_inv)
Configure(value_inv) ==
    /\ pc = "configure"
    /\ Len(gates) < MaxGadgets
    /\ gates' = Append(gates, ConfigureGate(QEnable, ValueExpr, value_inv))
    /\ configs' = Append(configs, ConfigureConfig(ValueExpr, value_inv))
    /\ UNCHANGED <<circuit, values, sel, cells, pc, i, k, lastCall, collab,
                   assignRet, result>>

\* synthesize is entered; an empty `values` runs the loop zero times
StartSynthesize ==
    /\ pc = "configure"
    /\ Len(gates) >= 1
    /\ IF circuit = "Cheat"
       THEN pc' = "c_enable" /\ result' = result
       ELSE IF Len(values) = 0
            THEN pc' = "done" /\ result' = "Ok"
            ELSE pc' = "enable" /\ result' = result
    /\ UNCHANGED <<gates, configs, circuit, values, sel, cells, i, k,
                   lastCall, collab, assignRet>>

\* line 143: config.selector.enable(&mut region, i)?
SelectorEnable ==
    /\ pc = "enable"
    /\ \E outcome \in Outcomes :
        IF outcome = "Ok"
        THEN /\ sel' = [sel EXCEPT ![i] = TRUE]
             /\ pc' = "value"
             /\ result' = result
        ELSE /\ sel' = sel
             /\ pc' = "failed"
             /\ result' = outcome
    /\ UNCHANGED <<gates, configs, circuit, values, cells, i, k, lastCall,
                   collab, assignRet>>

\* line 146: region.assign_advice(|| "value", config.advice, i, || value)?
AssignValue ==
    /\ pc = "value"
    /\ lastCall' = Call(AdviceCol, i, values[i + 1])
    /\ \E outcome \in Outcomes :
        IF outcome = "Ok"
        THEN /\ cells' = Stored(AdviceCol, i, values[i + 1])
             /\ pc' = "chip"
             /\ k' = 1
             /\ result' = result
        ELSE /\ cells' = cells
             /\ pc' = "failed"
             /\ k' = k
             /\ result' = outcome
    /\ UNCHANGED <<gates, configs, circuit, values, sel, i, collab,
                   assignRet>>

\* line 149: is_zero_chip.assign(&mut region, i, value)?  (lines 74-83),
\* once for each configured chip
ChipAssign ==
    /\ pc = "chip"
    /\ LET value_inv == ValueInvOf(values[i + 1])
           column == configs[k].value_inv
       IN /\ lastCall' = Call(column, i, value_inv)
          /\ \E outcome \in Outcomes :
              /\ collab' = outcome
              /\ cells' = IF outcome = "Ok" THEN Stored(column, i, value_inv)
                                            ELSE cells
              /\ assignRet' = AssignReturn(outcome)
              /\ IF assignRet' # "Ok"
                 THEN pc' = "failed" /\ result' = assignRet' /\ i' = i /\ k' = k
                 ELSE IF k < Len(configs)
                      THEN pc' = pc /\ result' = result /\ i' = i /\ k' = k + 1
                      ELSE IF i + 1 < Len(values)
                           THEN /\ pc' = "enable" /\ result' = result
                                /\ i' = i + 1 /\ k' = k
                           ELSE /\ pc' = "done" /\ result' = "Ok"
                                /\ i' = i /\ k' = k
    /\ UNCHANGED <<gates, configs, circuit, values, sel>>

\* CheatCircuit, line 235: config.selector.enable(&mut region, 0)?
\* (the adversary may also leave the row inactive)
CheatEnable ==
    /\ pc = "c_enable"
    /\ \E en \in BOOLEAN : sel' = [sel EXCEPT ![0] = en]
    /\ pc' = "c_value"
    /\ UNCHANGED <<gates, configs, circuit, values, cells, i, k, lastCall,
                   collab, assignRet, result>>

\* CheatCircuit, line 238: the value cell of row 0, any field element
CheatValue ==
    /\ pc = "c_value"
    /\ \E v \in F :
        /\ lastCall' = Call(AdviceCol, 0, Known(v))
        /\ cells' = Stored(AdviceCol, 0, Known(v))
    /\ pc' = "c_inv"
    /\ k' = 1
    /\ UNCHANGED <<gates, configs, circuit, values, sel, i, collab,
                   assignRet, result>>

\* CheatCircuit, line 241: the helper cell of row 0 written directly with a
\* value of the adversary's choice, for each configured gadget
CheatInv ==
    /\ pc = "c_inv"
    /\ \E h \in F :
        /\ lastCall' = Call(configs[k].value_inv, 0, Known(h))
        /\ cells' = Stored(configs[k].value_inv, 0, Known(h))
    /\ IF k < Len(configs)
       THEN pc' = pc /\ k' = k + 1 /\ result' = result
       ELSE pc' = "done" /\ k' = k /\ result' = "Ok"
    /\ UNCHANGED <<gates, configs, circuit, values, sel, i, collab,
                   assignRet>>

Next ==
    \/ \E value_inv \in HelperCols : Configure(value_inv)
    \/ StartSynthesize
    \/ SelectorEnable
    \/ AssignValue
    \/ ChipAssign
    \/ CheatEnable
    \/ CheatValue
    \/ CheatInv

Spec == Init /\ [][Next]_vars

TypeOK ==
    /\ Len(gates) = Len(configs)
    /\ Len(gates) <= MaxGadgets
    /\ circuit \in {"Test", "Cheat"}
    /\ sel \in [Rows -> BOOLEAN]
    /\ i \in Rows
    /\ result \in {"none"} \cup Outcomes

\* ------------------------------------------------- cells seen by a gadget
Gadgets == 1 .. Len(configs)
ValueAt(r) == CellValue(cells[AdviceCol][r])
HelperAt(g, r) == CellValue(cells[configs[g].value_inv][r])
Indicator(g, r) == Eval(configs[g].is_zero_expr, r)
AllKnown == \A n \in 1 .. Len(values) : values[n].known
\* the multiplicative inverse, by its defining equation
InverseOf(v) == CHOOSE h \in F : (v * h) % P = 1

\* C1 (soundness): on an active row whose value v is non-zero and whose
\* helper is not the inverse of v, the identity enable*value*(1-value*helper)
\* is violated and verification fails.
C1_Soundness ==
    \A g \in Gadgets : \A r \in Rows :
        (sel[r] /\ ValueAt(r) # 0 /\ HelperAt(g, r) # InverseOf(ValueAt(r)))
            => (~GateHolds(g, r) /\ ~Verify)

C1_Witness ==
    /\ circuit = "Cheat" /\ pc = "done" /\ sel[0]
    /\ cells[AdviceCol][0].assigned /\ ValueAt(0) > 1
    /\ \E g \in Gadgets :
        /\ cells[configs[g].value_inv][0].assigned
        /\ HelperAt(g, 0) # 0
        /\ HelperAt(g, 0) # InverseOf(ValueAt(0))

\* C2 (correct for non-zero): a row with value v # 0 and helper v^-1 makes
\* the indicator 1 - value*helper evaluate to 0 and satisfies the identity,
\* and a circuit whose only written row is such a row verifies.
C2_NonZeroCorrect ==
    /\ \A g \in Gadgets : \A r \in Rows :
        (ValueAt(r) # 0 /\ HelperAt(g, r) = InverseOf(ValueAt(r)))
            => (Indicator(g, r) = 0 /\ GateHolds(g, r))
    /\ (/\ circuit = "Cheat" /\ pc = "done" /\ ValueAt(0) # 0
        /\ \A g \in Gadgets : HelperAt(g, 0) = InverseOf(ValueAt(0)))
            => Verify

C2_Witness ==
    /\ circuit = "Cheat" /\ pc = "done" /\ sel[0]
    /\ ValueAt(0) > 1
    /\ \A g \in Gadgets : HelperAt(g, 0) = InverseOf(ValueAt(0))
    /\ Verify

\* C3 (correct for zero): with value 0 and any helper the indicator
\* evaluates to 1 and the identity holds, and the circuit verifies.
C3_ZeroCorrect ==
    /\ \A g \in Gadgets : \A r \in Rows :
        ValueAt(r) = 0 => (Indicator(g, r) = 1 /\ GateHolds(g, r))
    /\ (/\ circuit = "Cheat" /\ pc = "done"
        /\ cells[AdviceCol][0].assigned /\ ValueAt(0) = 0) => Verify

C3_Witness ==
    /\ circuit = "Cheat" /\ pc = "done" /\ sel[0]
    /\ cells[AdviceCol][0].assigned /\ ValueAt(0) = 0
    /\ \E g \in Gadgets : HelperAt(g, 0) > 1
    /\ Verify

\* C4 (assign): the helper write of IsZeroChip::assign goes to the chip's
\* value_inv column at the given offset and carries v^-1 for known(v), v # 0,
\* 0 for known(0) and unknown for unknown; a successful write of a known
\* value leaves it in that cell.
C4_Expected(value) ==
    IF ~value.known THEN Unknown
    ELSE IF value.v = 0 THEN Known(0)
    ELSE Known(InverseOf(value.v))

C4_AssignWrites ==
    [][pc = "chip" =>
        /\ lastCall' = Call(configs[k].value_inv, i,
                            C4_Expected(values[i + 1]))
        /\ (collab' = "Ok" /\ values[i + 1].known) =>
              cells'[configs[k].value_inv][i]
                  = Assigned(C4_Expected(values[i + 1]).v)
        /\ \A c \in Cols : \A r \in Rows :
              (c # configs[k].value_inv \/ r # i) =>
                  cells'[c][r] = cells[c][r]]_vars

C4_Witness ==
    /\ collab = "Ok" /\ lastCall.column # AdviceCol
    /\ lastCall.value.known /\ lastCall.value.v > 1
    /\ lastCall.value.v # values[lastCall.offset + 1].v
    /\ cells[lastCall.column][lastCall.offset] = Assigned(lastCall.value.v)
    /\ \E n \in 1 .. Len(values) : ~values[n].known \/ values[n] = Known(0)

\* C5 (honest synthesis): for every vector of known values, a completed
\* synthesize of TestCircuit leaves every row satisfying the identity and
\* verification returns Ok.
C5_HonestVerifies ==
    (circuit = "Test" /\ pc = "done" /\ AllKnown) =>
        /\ \A g \in Gadgets : \A r \in Rows : GateHolds(g, r)
        /\ Verify

C5_Witness ==
    /\ circuit = "Test" /\ pc = "done" /\ AllKnown
    /\ Len(values) = MaxRows
    /\ \E n \in 1 .. Len(values) : values[n].v = 0
    /\ \E n \in 1 .. Len(values) : values[n].v > 1
    /\ \A r \in Rows : sel[r]

\* C6 (indicator range): on an active row satisfying the identity the
\* indicator is 0 or 1, and it is 1 exactly when the value is 0.
C6_IndicatorRange ==
    \A g \in Gadgets : \A r \in Rows :
        (sel[r] /\ GateHolds(g, r)) =>
            /\ Indicator(g, r) \in {0, 1}
            /\ (Indicator(g, r) = 1 <=> ValueAt(r) = 0)

C6_Witness ==
    /\ pc = "done"
    /\ \E g \in Gadgets : \E r \in Rows :
        /\ sel[r] /\ GateHolds(g, r)
        /\ cells[AdviceCol][r].assigned
        /\ cells[configs[g].value_inv][r].assigned
        /\ ValueAt(r) > 1 /\ Indicator(g, r) = 0
    /\ \E g \in Gadgets : \E r \in Rows :
        /\ sel[r] /\ GateHolds(g, r)
        /\ cells[AdviceCol][r].assigned
        /\ ValueAt(r) = 0 /\ Indicator(g, r) = 1

\* C7 (independence): with two gadgets configured on distinct helper
\* columns, a write (by assign or by a cheating prover) into one gadget's
\* helper column changes neither whether the other gadget's identity holds
\* nor the value of the other gadget's indicator, on any row.
C7_Independent ==
    [][\A g1 \in Gadgets : \A g2 \in Gadgets :
          (/\ configs[g1].value_inv # configs[g2].value_inv
           /\ pc \in {"chip", "c_inv"}
           /\ k = g2)
          => \A r \in Rows :
                /\ EvalIn(gates[g1].poly, r, sel', cells')
                      = Eval(gates[g1].poly, r)
                /\ EvalIn(configs[g1].is_zero_expr, r, sel', cells')
                      = Indicator(g1, r)]_vars

C7_Witness ==
    /\ Len(configs) = 2
    /\ configs[1].value_inv # configs[2].value_inv
    /\ pc = "done"
    /\ sel[0] /\ ValueAt(0) # 0
    /\ cells[configs[1].value_inv][0].assigned
    /\ cells[configs[2].value_inv][0].assigned
    /\ GateHolds(1, 0) /\ ~GateHolds(2, 0)

\* C8 (errors): assign returns an error exactly when the region write of
\* the helper cell fails, and it is the collaborator's error; when assign
\* fails at row i, synthesize has failed with that error and no cell and no
\* selector of a later row is written.
C8_ErrorPropagation ==
    /\ assignRet # "none" => assignRet = collab
    /\ collab \in Errors =>
        /\ pc = "failed"
        /\ result = collab
        /\ \A r \in Rows : r > i =>
              /\ ~sel[r]
              /\ \A c \in Cols : ~cells[c][r].assigned

C8_Witness ==
    /\ collab = "Synthesis" /\ assignRet = "Synthesis"
    /\ pc = "failed" /\ result = "Synthesis"
    /\ i = 0 /\ Len(values) = MaxRows /\ AllKnown

C10_InactiveRow ==
    /\ \A g \in Gadgets : \A r \in Rows : ~sel[r] => GateHolds(g, r)
    /\ \A g \in Gadgets : \A r \in Rows :
        (~sel[r] /\ ValueAt(r) # 0 /\ HelperAt(g, r) = 0)
            => Indicator(g, r) = 1
    /\ (circuit = "Cheat" /\ pc = "done" /\ ~sel[0]) => Verify

C10_Witness ==
    /\ circuit = "Cheat" /\ pc = "done" /\ ~sel[0]
    /\ cells[AdviceCol][0].assigned /\ ValueAt(0) # 0
    /\ \E g \in Gadgets :
        /\ cells[configs[g].value_inv][0].assigned
        /\ HelperAt(g, 0) = 0 /\ Indicator(g, 0) = 1
    /\ Verify
====
